---- MODULE Spec2Model ----
(***************************************************************************)
(* Chunking, index build and retrieval of the AD biomarker RAG pipeline    *)
(* (scripts/build_index.py, scripts/query.py).                             *)
(*                                                                         *)
(* Text is a sequence of one-character strings.  The build is followed     *)
(* statement by statement: the loop over the paper files, the loop over    *)
(* the sections of one paper, the sliding-window loop of chunk_section,    *)
(* then the embedding / index / pickle step and retrieve().                *)
(***************************************************************************)
EXTENDS Integers, Sequences, FiniteSets, TLC

\* ------------------------------------------------------------------ bounds
MaxTextLen == 5
MaxPapers == 2
MaxSecWords == 3
MaxChunkSize == 2
MaxOverlap == 2
MaxK == 2
MaxQ == 1
MaxLoopIter == 7

\* ------------------------------------------------------ python primitives
NoneVal == "None"
Chars == {"a", " ", "\n"}
IsSpace(c) == c \in {" ", "\n"}

SetMin(S) == CHOOSE x \in S : \A y \in S : x <= y

\* str.find(sep): first 1-based position of sep in s, 0 when absent
Find(s, sep) ==
  LET cands == {i \in 1..(Len(s) - Len(sep) + 1) : SubSeq(s, i, i + Len(sep) - 1) = sep}
  IN IF cands = {} THEN 0 ELSE SetMin(cands)

\* str.split(sep) with an explicit separator: empty pieces are kept
RECURSIVE StrSplit(_, _)
StrSplit(s, sep) ==
  LET i == Find(s, sep)
  IN IF i = 0 THEN <<s>>
     ELSE <<SubSeq(s, 1, i - 1)>> \o StrSplit(SubSeq(s, i + Len(sep), Len(s)), sep)

RECURSIVE LStrip(_)
LStrip(s) == IF s # <<>> /\ IsSpace(Head(s)) THEN LStrip(Tail(s)) ELSE s

RECURSIVE RStrip(_)
RStrip(s) == IF s # <<>> /\ IsSpace(s[Len(s)]) THEN RStrip(SubSeq(s, 1, Len(s) - 1)) ELSE s

\* str.strip()
Strip(s) == RStrip(LStrip(s))

\* str.split() without a separator: runs of whitespace separate, no empty word
RECURSIVE SplitWords(_)
SplitWords(s) ==
  LET t == LStrip(s)
  IN IF t = <<>> THEN <<>>
     ELSE LET sp == {i \in 1..Len(t) : IsSpace(t[i])}
              n == IF sp = {} THEN Len(t) + 1 ELSE SetMin(sp)
          IN <<SubSeq(t, 1, n - 1)>> \o SplitWords(SubSeq(t, n, Len(t)))

\* " ".join(ws)
RECURSIVE StrJoin(_)
StrJoin(ws) ==
  IF ws = <<>> THEN <<>>
  ELSE IF Len(ws) = 1 THEN ws[1]
  ELSE ws[1] \o <<" ">> \o StrJoin(Tail(ws))

\* a slice bound as python normalises it: negative counts from the end, then clamped
SliceBound(i, n) == IF i < 0 THEN (IF i + n < 0 THEN 0 ELSE i + n) ELSE IF i > n THEN n ELSE i

\* s[a:b]
PySlice(s, a, b) == SubSeq(s, SliceBound(a, Len(s)) + 1, SliceBound(b, Len(s)))

\* list[idx]: negative idx counts from the end; outside -n..n-1 is an IndexError
InRange(idx, n) == -n <= idx /\ idx < n
PyGet(s, idx) == IF idx < 0 THEN s[idx + Len(s) + 1] ELSE s[idx + 1]

\* --------------------------------------------------------------- state
VARIABLES
  papers,              \* papers_dir: the PMC*.txt files in glob order, each with its text
                       \* and whether its _metadata.json exists
  chunk_size, overlap, \* --chunk_size, --overlap
  pc,                  \* position in the program
  file_idx,            \* files of the glob consumed so far
  paper_stem, pmcid, pmid,   \* locals of load_and_chunk_papers
  sections, sec_pos,   \* enumerate(sections) of chunk_paper_text and its position
  sec_title, words,    \* locals of chunk_paper_text
  start, sec_chunks,   \* locals of chunk_section (its chunks list is sec_chunks on return)
  paper_chunks, all_section_titles, all_section_ids, all_chunk_ids,  \* chunk_paper_text result
  all_chunks, metadata,                    \* load_and_chunk_papers result
  faiss_index, chunks_pkl, metadata_pkl,   \* the persisted index and the two pickles
  k, q_emb, results, err                   \* retrieve: arguments, result, raised error

cfgVars == <<papers, chunk_size, overlap>>
fileVars == <<file_idx, paper_stem, pmcid, pmid>>
secVars == <<sections, sec_pos, sec_title, words>>
winVars == <<start, sec_chunks>>
paperVars == <<paper_chunks, all_section_titles, all_section_ids, all_chunk_ids>>
corpusVars == <<all_chunks, metadata>>
diskVars == <<faiss_index, chunks_pkl, metadata_pkl>>
queryVars == <<k, q_emb, results>>
vars == <<cfgVars, pc, fileVars, secVars, winVars, paperVars, corpusVars, diskVars, queryVars, err>>

\* ------------------------------------------------------------- inputs
AllTexts == UNION {[1..m -> Chars] : m \in 0..MaxTextLen}

\* a section of n words: a aa a aa ...
WordsText(n) == StrJoin([i \in 1..n |-> IF i % 2 = 1 THEN <<"a">> ELSE <<"a", "a">>])

\* corpus texts: an empty block followed by a section; a long and a short section;
\* one section made of a title line and a body
CorpusTexts ==
  { <<"\n", "\n">> \o WordsText(1),
    WordsText(MaxSecWords) \o <<"\n", "\n">> \o WordsText(1),
    <<"a", "\n">> \o WordsText(MaxSecWords) }

Stem(i) == "PMC" \o ToString(i)

\* a paper file: its stem, its text, whether <stem>_metadata.json exists and the pmc_id
\* that file records (the accession number without the PMC prefix)
Paper(i, t, m) == [stem |-> Stem(i), text |-> t, hasMeta |-> m, pmc_id |-> ToString(i)]

SinglePaper == {<<Paper(1, t, TRUE)>> : t \in AllTexts}

Corpora ==
  UNION { { [i \in 1..n |-> Paper(i, f[i].text, f[i].hasMeta)] :
              f \in [1..n -> [text : CorpusTexts, hasMeta : BOOLEAN]] } : n \in 0..MaxPapers }

Init ==
  /\ papers \in SinglePaper \cup Corpora
  /\ chunk_size \in 1..MaxChunkSize
  /\ overlap \in 0..MaxOverlap
  /\ pc = "files"
  /\ file_idx = 0
  /\ paper_stem = NoneVal /\ pmcid = NoneVal /\ pmid = NoneVal
  /\ sections = <<>> /\ sec_pos = 0 /\ sec_title = <<>> /\ words = <<>>
  /\ start = 0 /\ sec_chunks = <<>>
  /\ paper_chunks = <<>> /\ all_section_titles = <<>>
  /\ all_section_ids = <<>> /\ all_chunk_ids = <<>>
  /\ all_chunks = <<>> /\ metadata = <<>>
  /\ faiss_index = <<>> /\ chunks_pkl = <<>> /\ metadata_pkl = <<>>
  /\ k = 0 /\ q_emb = 0 /\ results = <<>> /\ err = NoneVal

\* ------------------------------------------------------------ chunker
\* lines = [l.strip() for l in sec.split("\n") if l.strip()]
Lines(sec) ==
  LET raw == StrSplit(sec, <<"\n">>)
      stripped == [i \in 1..Len(raw) |-> Strip(raw[i])]
  IN SelectSeq(stripped, LAMBDA l : l # <<>>)

\* variant: the blocks without a non-empty line are dropped before the enumeration
EnumerateNonEmptySections(text) ==
  LET blocks == SelectSeq(StrSplit(text, <<"\n", "\n">>), LAMBDA b : Lines(b) # <<>>)
  IN [i \in 1..Len(blocks) |-> [sec_idx |-> i - 1, sec |-> blocks[i]]]

\* enumerate(text.split("\n\n")): every block with its 0-based position
EnumerateSections(text) ==
  LET blocks == StrSplit(text, <<"\n", "\n">>)
  IN [i \in 1..Len(blocks) |-> [sec_idx |-> i - 1, sec |-> blocks[i]]]

\* variant: the start advances by the overlap instead of the step
NextStartByOverlap(st) == st + overlap

\* step = chunk_size - overlap; start += step
NextStart(st) == st + (chunk_size - overlap)

\* variant: the loop also runs for start = len(words)
WindowContinuesInclusive(st, n) == st <= n

\* while start < len(words)
WindowContinues(st, n) == st < n

\* variant: the window is one word too long
WindowOneTooLong(ws, st) == StrJoin(PySlice(ws, st, st + chunk_size + 1))

\* " ".join(words[start:end]) with end = start + chunk_size
Window(ws, st) == StrJoin(PySlice(ws, st, st + chunk_size))

\* variant: the chunk indices count from one
SectionChunkIdsFromOne(chs) == [i \in 1..Len(chs) |-> i]

\* the chunk_idx values of enumerate(sec_chunks)
SectionChunkIds(chs) == [i \in 1..Len(chs) |-> i - 1]

\* load_paper_metadata: (pmcid, pmid), (None, None) when the file is missing;
\* the file written by download_papers.py has a "pmc_id" key and no "pmid" key
LoadPaperMetadata(p) ==
  IF ~p.hasMeta THEN <<NoneVal, NoneVal>> ELSE <<p.pmc_id, NoneVal>>

\* variant: section index and chunk index stored in each other's field
ChunkMdSwapped(stem, sid, title, cid) ==
  [pmcid |-> stem, section_index |-> cid, section_title |-> title,
   chunk_index_in_section |-> sid]

\* variant: the pmcid field takes the value loaded from the metadata file
ChunkMdLoadedId(stem, sid, title, cid) ==
  [pmcid |-> pmcid, section_index |-> sid, section_title |-> title,
   chunk_index_in_section |-> cid]

\* the md dict of load_and_chunk_papers
ChunkMd(stem, sid, title, cid) ==
  [pmcid |-> stem, section_index |-> sid, section_title |-> title,
   chunk_index_in_section |-> cid]

\* for txt_file in papers_dir.glob("PMC*.txt"): read the text, load the metadata file,
\* enter chunk_paper_text up to the head of its section loop
ReadPaper ==
  /\ pc = "files"
  /\ file_idx < Len(papers)
  /\ LET p == papers[file_idx + 1]
         loaded == LoadPaperMetadata(p)
     IN /\ paper_stem' = p.stem
        /\ pmcid' = loaded[1]
        /\ pmid' = loaded[2]
        /\ sections' = EnumerateSections(p.text)
  /\ sec_pos' = 0
  /\ sec_title' = <<>> /\ words' = <<>>
  /\ start' = 0 /\ sec_chunks' = <<>>
  /\ paper_chunks' = <<>> /\ all_section_titles' = <<>>
  /\ all_section_ids' = <<>> /\ all_chunk_ids' = <<>>
  /\ pc' = "sections"
  /\ UNCHANGED <<cfgVars, file_idx, corpusVars, diskVars, queryVars, err>>

\* if not lines: continue
SkipSection ==
  /\ pc = "sections"
  /\ sec_pos < Len(sections)
  /\ Lines(sections[sec_pos + 1].sec) = <<>>
  /\ sec_pos' = sec_pos + 1
  /\ UNCHANGED <<cfgVars, pc, fileVars, sections, sec_title, words, winVars, paperVars,
                 corpusVars, diskVars, queryVars, err>>

\* a section with a non-empty line: title, words, and the call of chunk_section up to
\* its early return or the head of its while loop
EnterSection ==
  /\ pc = "sections"
  /\ sec_pos < Len(sections)
  /\ LET sec == sections[sec_pos + 1].sec
         lines == Lines(sec)
         ws == SplitWords(sec)
     IN /\ lines # <<>>
        /\ sec_title' = lines[1]
        /\ words' = ws
        /\ IF Len(ws) <= chunk_size
           THEN /\ sec_chunks' = <<StrJoin(ws)>>
                /\ pc' = "emit"
           ELSE /\ sec_chunks' = <<>>
                /\ pc' = "loop"
  /\ start' = 0
  /\ UNCHANGED <<cfgVars, fileVars, sections, sec_pos, paperVars, corpusVars, diskVars,
                 queryVars, err>>

\* one iteration of the while loop of chunk_section
LoopStep ==
  /\ pc = "loop"
  /\ WindowContinues(start, Len(words))
  /\ Len(sec_chunks) < MaxLoopIter
  /\ sec_chunks' = Append(sec_chunks, Window(words, start))
  /\ start' = NextStart(start)
  /\ UNCHANGED <<cfgVars, pc, fileVars, secVars, paperVars, corpusVars, diskVars,
                 queryVars, err>>

\* the while condition is false: return chunks
LoopExit ==
  /\ pc = "loop"
  /\ ~WindowContinues(start, Len(words))
  /\ pc' = "emit"
  /\ UNCHANGED <<cfgVars, fileVars, secVars, winVars, paperVars, corpusVars, diskVars,
                 queryVars, err>>

\* for chunk_idx, ch in enumerate(sec_chunks): append to the four lists
EmitSection ==
  /\ pc = "emit"
  /\ LET n == Len(sec_chunks)
         ids == SectionChunkIds(sec_chunks)
     IN /\ paper_chunks' = paper_chunks \o sec_chunks
        /\ all_section_titles' = all_section_titles \o [i \in 1..n |-> sec_title]
        /\ all_section_ids' = all_section_ids \o [i \in 1..n |-> sections[sec_pos + 1].sec_idx]
        /\ all_chunk_ids' = all_chunk_ids \o ids
  /\ sec_pos' = sec_pos + 1
  /\ pc' = "sections"
  /\ UNCHANGED <<cfgVars, fileVars, sections, sec_title, words, winVars, corpusVars,
                 diskVars, queryVars, err>>

\* chunk_paper_text returns; for i, ch in enumerate(chunks): build md, append both lists
FinishPaper ==
  /\ pc = "sections"
  /\ sec_pos = Len(sections)
  /\ all_chunks' = all_chunks \o paper_chunks
  /\ metadata' = metadata \o
       [i \in 1..Len(paper_chunks) |->
          ChunkMd(paper_stem, all_section_ids[i], all_section_titles[i], all_chunk_ids[i])]
  /\ file_idx' = file_idx + 1
  /\ pc' = "files"
  /\ UNCHANGED <<cfgVars, paper_stem, pmcid, pmid, secVars, winVars, paperVars, diskVars,
                 queryVars, err>>

\* ------------------------------------------------------------ indexer
\* model.encode: one vector per text, in input order; a text's vector is a function of
\* the text alone (here its length, a vector of dimension one)
Embed(text) == Len(text)
Encode(texts) == [i \in 1..Len(texts) |-> Embed(texts[i])]

\* main after load_and_chunk_papers: encode, build_faiss_index, pickle both lists.
\* embeddings.shape[1] of the encoding of an empty list: IndexError when the encoder
\* returns a one-dimensional empty array, an empty index when it returns shape (0, d)
BuildIndex ==
  /\ pc = "files"
  /\ file_idx = Len(papers)
  /\ \/ /\ faiss_index' = Encode(all_chunks)
        /\ chunks_pkl' = all_chunks
        /\ metadata_pkl' = metadata
        /\ pc' = "built"
        /\ err' = err
     \/ /\ all_chunks = <<>>
        /\ pc' = "error"
        /\ err' = "IndexError"
        /\ UNCHANGED diskVars
  /\ UNCHANGED <<cfgVars, fileVars, secVars, winVars, paperVars, corpusVars, queryVars>>

\* ---------------------------------------------------------- retriever
\* squared Euclidean distance of IndexFlatL2
Dist(v, q) == (v - q) * (v - q)

\* the n nearest positions of S to q (all of S when it has fewer), nearest first, in
\* every order that ties in distance allow
RECURSIVE Nearest(_, _, _, _)
Nearest(index, q, S, n) ==
  IF n = 0 \/ S = {} THEN {<<>>}
  ELSE LET dmin == SetMin({Dist(index[i + 1], q) : i \in S})
           M == {i \in S : Dist(index[i + 1], q) = dmin}
       IN UNION { { <<i>> \o r : r \in Nearest(index, q, S \ {i}, n - 1) } : i \in M }

\* index.search(q, kk): the labels row I[0]: the kk nearest positions, nearest first;
\* when the index holds fewer than kk vectors the remaining labels are -1
Search(index, q, kk) ==
  { [j \in 1..kk |-> IF j <= Len(o) THEN o[j] ELSE -1] :
      o \in Nearest(index, q, 0..(Len(index) - 1), kk) }

\* the result dict of retrieve for label idx
ResultOf(idx) ==
  LET m == PyGet(metadata_pkl, idx)
  IN [chunk |-> PyGet(chunks_pkl, idx),
      pmcid |-> m.pmcid,
      section_index |-> m.section_index,
      section_title |-> m.section_title,
      chunk_index_in_section |-> m.chunk_index_in_section,
      faiss_id |-> idx]

\* load_index_assets and retrieve(query, model, index, chunks, metadata, k)
Retrieve ==
  /\ pc = "built"
  /\ \E kk \in 1..MaxK, q \in 0..MaxQ :
       \E I \in Search(faiss_index, q, kk) :
         /\ k' = kk
         /\ q_emb' = q
         /\ IF \A j \in 1..kk : InRange(I[j], Len(metadata_pkl)) /\ InRange(I[j], Len(chunks_pkl))
            THEN /\ results' = [j \in 1..kk |-> ResultOf(I[j])]
                 /\ pc' = "retrieved"
                 /\ err' = err
            ELSE /\ results' = <<>>
                 /\ pc' = "error"
                 /\ err' = "IndexError"
  /\ UNCHANGED <<cfgVars, fileVars, secVars, winVars, paperVars, corpusVars, diskVars>>

\* the query is answered: answer_query (or one run of the chat script) ends and its
\* locals, the results among them, are gone; the persisted index is ready for the next query
AnswerDone ==
  /\ pc = "retrieved"
  /\ pc' = "built"
  /\ k' = 0 /\ q_emb' = 0 /\ results' = <<>>
  /\ UNCHANGED <<cfgVars, fileVars, secVars, winVars, paperVars, corpusVars, diskVars, err>>

Next ==
  \/ ReadPaper
  \/ SkipSection
  \/ EnterSection
  \/ LoopStep
  \/ LoopExit
  \/ EmitSection
  \/ FinishPaper
  \/ BuildIndex
  \/ Retrieve
  \/ AnswerDone

Spec == Init /\ [][Next]_vars

\* the while loop and its exit are plain sequential code: a step that can run does run
FairSpec == Spec /\ WF_vars(LoopStep) /\ WF_vars(LoopExit)

\* ------------------------------------------------- shared vocabulary
ValidConfig == chunk_size > overlap /\ overlap >= 0
InvalidConfig == overlap >= chunk_size

\* ceil(a / b) for a >= 0, b > 0
CeilDiv(a, b) == (a + b - 1) \div b

HasContent(block) == \E i \in 1..Len(block) : ~IsSpace(block[i])

\* the blocks of the blank-line split of a text, straight from the text
BlocksOf(text) == StrSplit(text, <<"\n", "\n">>)

TextOf(stem) == (CHOOSE i \in 1..Len(papers) : papers[i].stem = stem)

\* the text that chunk number c of section number s of a text is, in closed form:
\* the whole section when it has at most chunk_size words, otherwise the words
\* c*step .. c*step + chunk_size - 1
ExpectedChunk(text, s, c) ==
  LET ws == SplitWords(BlocksOf(text)[s + 1])
  IN IF Len(ws) <= chunk_size THEN StrJoin(ws)
     ELSE StrJoin(PySlice(ws, c * (chunk_size - overlap), c * (chunk_size - overlap) + chunk_size))

\* the number of chunks a section of w words yields when chunking terminates
ExpectedSectionCount(w) ==
  IF w <= chunk_size THEN 1 ELSE CeilDiv(w, chunk_size - overlap)

RECURSIVE SumSeq(_)
SumSeq(s) == IF s = <<>> THEN 0 ELSE Head(s) + SumSeq(Tail(s))

ExpectedPaperCount(text) ==
  LET blocks == BlocksOf(text)
  IN SumSeq([i \in 1..Len(blocks) |->
               IF HasContent(blocks[i])
               THEN ExpectedSectionCount(Len(SplitWords(blocks[i]))) ELSE 0])

RECURSIVE IsSubseq(_, _)
IsSubseq(a, b) ==
  IF a = <<>> THEN TRUE
  ELSE IF b = <<>> THEN FALSE
  ELSE IF Head(a) = Head(b) THEN IsSubseq(Tail(a), Tail(b))
  ELSE IsSubseq(a, Tail(b))

\* the chunks of a section put back together: all words of the first chunk, then every
\* later chunk without its first `overlap` words
RECURSIVE Reconstruct(_, _)
Reconstruct(chs, first) ==
  IF chs = <<>> THEN <<>>
  ELSE LET ws == SplitWords(Head(chs))
       IN (IF first THEN ws ELSE PySlice(ws, overlap, Len(ws))) \o Reconstruct(Tail(chs), FALSE)

InPaper == pc \in {"sections", "loop", "emit"}
PaperDone == pc = "sections" /\ sec_pos = Len(sections)
Built == pc \in {"built", "retrieved"}

\* ------------------------------------------------------------ claims

\* C1: with overlap >= chunk_size chunking fails with a configuration error before any
\* text is processed: no section is split into words, the window loop is never entered
\* and no chunk is ever produced.
C1_InvalidConfigFailsFast ==
  InvalidConfig =>
    /\ pc \notin {"loop", "emit"}
    /\ words = <<>> /\ sec_chunks = <<>> /\ paper_chunks = <<>> /\ all_chunks = <<>>

\* C2: a section of W > chunk_size words under a valid configuration yields
\* ceil((W - chunk_size) / (chunk_size - overlap)) + 1 chunks.
C2_CountFormula ==
  (pc = "emit" /\ ValidConfig /\ Len(words) > chunk_size) =>
    Len(sec_chunks) = CeilDiv(Len(words) - chunk_size, chunk_size - overlap) + 1

\* C2 as amended: a section of W > chunk_size words under a valid configuration yields
\* ceil(W / (chunk_size - overlap)) chunks, one per window start below W.
C2_CountByStarts ==
  (pc = "emit" /\ ValidConfig /\ Len(words) > chunk_size) =>
    Len(sec_chunks) = CeilDiv(Len(words), chunk_size - overlap)

C2_Witness ==
  /\ pc = "emit" /\ ValidConfig /\ Len(words) > chunk_size
  /\ overlap >= 1 /\ Len(sec_chunks) >= 3

\* C3: on an index of N >= 1 chunks, retrieve with k >= N returns exactly N results,
\* every position 0..N-1 exactly once, in order of non-decreasing distance.
C3_AllChunksOnce ==
  LET n == Len(faiss_index)
  IN (pc = "retrieved" /\ n >= 1 /\ k >= n) =>
       /\ Len(results) = n
       /\ {results[j].faiss_id : j \in 1..Len(results)} = 0..(n - 1)
       /\ \A i, j \in 1..Len(results) : i < j =>
            /\ results[i].faiss_id # results[j].faiss_id
            /\ Dist(PyGet(faiss_index, results[i].faiss_id), q_emb)
                 <= Dist(PyGet(faiss_index, results[j].faiss_id), q_emb)

\* C4: once retrieve has been called (k >= 1) on an index of zero chunks, it has
\* returned the empty result list and raised no error.
C4_EmptyIndexEmptyResult ==
  (pc \in {"retrieved", "error"} /\ k >= 1 /\ Len(faiss_index) = 0) =>
    (pc = "retrieved" /\ results = <<>> /\ err = NoneVal)

\* C5: after a build the chunk list, the metadata list and the index have one length;
\* at every position the vector is the embedding of the text there and the text is the
\* chunk that the metadata there names (document, section index, chunk index); every
\* result of retrieve carries the text of the chunk its metadata names.  (The three
\* stores are written by the build only, so the positions are compared in the state the
\* build leaves and to which every answered query returns.)
C5_Alignment ==
  /\ Built =>
       /\ Len(chunks_pkl) = Len(faiss_index)
       /\ Len(metadata_pkl) = Len(faiss_index)
  /\ pc = "built" =>
       \A i \in 1..Len(faiss_index) :
         LET m == metadata_pkl[i]
         IN /\ faiss_index[i] = Embed(chunks_pkl[i])
            /\ \E j \in 1..Len(papers) : papers[j].stem = m.pmcid
            /\ m.section_index \in 0..(Len(BlocksOf(papers[TextOf(m.pmcid)].text)) - 1)
            /\ chunks_pkl[i] =
                 ExpectedChunk(papers[TextOf(m.pmcid)].text, m.section_index,
                               m.chunk_index_in_section)
  /\ pc = "retrieved" =>
       \A j \in 1..Len(results) :
         LET r == results[j]
         IN /\ \E i \in 1..Len(papers) : papers[i].stem = r.pmcid
            /\ r.section_index \in 0..(Len(BlocksOf(papers[TextOf(r.pmcid)].text)) - 1)
            /\ r.chunk =
                 ExpectedChunk(papers[TextOf(r.pmcid)].text, r.section_index,
                               r.chunk_index_in_section)

C5_Witness ==
  /\ pc = "retrieved" /\ Len(papers) >= 2 /\ Len(results) >= 2
  /\ results[1].pmcid # results[2].pmcid
  /\ \E i \in 1..Len(metadata_pkl) : metadata_pkl[i].chunk_index_in_section >= 1

\* C6: the chunk_index_in_section values of one section of one document, in output
\* order, are 0, 1, ..., n-1 where n is the number of chunks of that section.
C6_ChunkIdsSequential ==
  /\ \A i \in 1..Len(all_chunk_ids) :
       all_chunk_ids[i] =
         Cardinality({j \in 1..(i - 1) : all_section_ids[j] = all_section_ids[i]})
  /\ \A i \in 1..Len(metadata) :
       metadata[i].chunk_index_in_section =
         Cardinality({j \in 1..(i - 1) :
                        /\ metadata[j].pmcid = metadata[i].pmcid
                        /\ metadata[j].section_index = metadata[i].section_index})

C6_Witness ==
  /\ PaperDone
  /\ Cardinality({all_section_ids[i] : i \in 1..Len(all_section_ids)}) >= 2
  /\ \E i \in 1..Len(all_chunk_ids) : all_chunk_ids[i] >= 2

PositionFields == {"section_index", "section_title", "chunk_index_in_section"}

C8_Terminates ==
  /\ [][(pc = "loop" /\ pc' = "loop" /\ chunk_size - overlap >= 1) => start' > start]_vars
  /\ [][(pc = "loop" /\ pc' # "loop" /\ chunk_size - overlap >= 1) => start >= Len(words)]_vars
  /\ ((pc = "loop" /\ chunk_size - overlap >= 1) ~> (pc = "emit"))

C8_Witness ==
  /\ pc = "emit" /\ chunk_size - overlap >= 1
  /\ Len(words) > chunk_size /\ Len(sec_chunks) >= 2 /\ start >= Len(words)

\* C9: every emitted section_index is the 0-based position of the chunk's section among
\* all blocks of the blank-line split; blocks without a non-empty line emit nothing and
\* their position is not reused; emitted indices are non-decreasing.
C9_SectionIndexIsRawPosition ==
  InPaper =>
    LET text == papers[file_idx + 1].text
        blocks == BlocksOf(text)
    IN /\ \A i \in 1..Len(all_section_ids) :
            /\ all_section_ids[i] \in 0..(Len(blocks) - 1)
            /\ HasContent(blocks[all_section_ids[i] + 1])
            /\ paper_chunks[i] = ExpectedChunk(text, all_section_ids[i], all_chunk_ids[i])
       /\ \A i, j \in 1..Len(all_section_ids) : i < j => all_section_ids[i] <= all_section_ids[j]
       /\ PaperDone =>
            {all_section_ids[i] : i \in 1..Len(all_section_ids)}
              = {j - 1 : j \in {b \in 1..Len(blocks) : HasContent(blocks[b])}}

C9_Witness ==
  /\ PaperDone
  /\ all_section_ids # <<>>
  /\ all_section_ids[1] >= 1
  /\ Len(BlocksOf(papers[file_idx + 1].text)) >= 3

\* C10: under a valid configuration the chunks of a section, concatenated after dropping
\* the first `overlap` words of every chunk but the first, are a subsequence of the
\* section's words.
C10_ReconstructIsSubsequence ==
  (pc = "emit" /\ ValidConfig) => IsSubseq(Reconstruct(sec_chunks, TRUE), words)

C10_Witness ==
  /\ pc = "emit" /\ ValidConfig /\ overlap >= 1
  /\ Len(sec_chunks) >= 3
  /\ \E i, j \in 1..Len(words) : words[i] # words[j]

====
